---- MODULE Spec2Model ----
(***************************************************************************)
(* A model of analyze_student_performance.py: the statistics functions     *)
(* (quantile, box_stats, pearson, statistics.mean), the SVG emitter        *)
(* save_svg, the three chart composers and main().                         *)
(*                                                                         *)
(* Numbers.  The program computes with Python floats (IEEE-754 binary64,   *)
(* round to nearest, ties to even).  A float is modelled exactly, as a     *)
(* record [neg, m, e] standing for (-1)^neg * m * 2^e, with m an odd       *)
(* natural number of at most 53 bits kept as a sequence of base-2^15       *)
(* limbs (TLC's integers are 32 bits wide).  Every float operation is the  *)
(* exact result rounded to 53 significant bits.  The exponent range is not *)
(* modelled: the inputs are small numbers (-3.0, 0.0, 0.1 and marks up to  *)
(* 100), far from overflow and underflow, so no operation yields an        *)
(* infinity, a NaN or a signed zero.                                       *)
(***************************************************************************)
EXTENDS Integers, Sequences, FiniteSets, TLC

----------------------------------------------------------------------------
(* Natural numbers of any size: little-endian sequences of limbs.          *)

LimbBits == 15
Base == 2 ^ LimbBits
MantBits == 53

Min(a, b) == IF a < b THEN a ELSE b
Max0(a) == IF a > 0 THEN a ELSE 0

Limb(a, i) == IF i <= Len(a) THEN a[i] ELSE 0

RECURSIVE Trim(_)
Trim(a) ==
    IF a = <<>> THEN <<>>
    ELSE IF a[Len(a)] = 0 THEN Trim(SubSeq(a, 1, Len(a) - 1)) ELSE a

RECURSIVE BigFromNat(_)
BigFromNat(n) == IF n = 0 THEN <<>> ELSE <<n % Base>> \o BigFromNat(n \div Base)

RECURSIVE BigToNat(_)
BigToNat(a) == IF a = <<>> THEN 0 ELSE a[1] + Base * BigToNat(Tail(a))

RECURSIVE BigAddFrom(_, _, _, _)
BigAddFrom(a, b, i, c) ==
    IF i > Len(a) /\ i > Len(b)
    THEN (IF c = 0 THEN <<>> ELSE <<c>>)
    ELSE <<(Limb(a, i) + Limb(b, i) + c) % Base>>
            \o BigAddFrom(a, b, i + 1, (Limb(a, i) + Limb(b, i) + c) \div Base)

BigAdd(a, b) == BigAddFrom(a, b, 1, 0)

RECURSIVE BigSubFrom(_, _, _, _)
BigSubFrom(a, b, i, c) ==
    IF i > Len(a) THEN <<>>
    ELSE IF a[i] - Limb(b, i) - c < 0
    THEN <<a[i] - Limb(b, i) - c + Base>> \o BigSubFrom(a, b, i + 1, 1)
    ELSE <<a[i] - Limb(b, i) - c>> \o BigSubFrom(a, b, i + 1, 0)

\* a - b, for a >= b
BigSub(a, b) == Trim(BigSubFrom(a, b, 1, 0))

RECURSIVE BigCmpFrom(_, _, _)
BigCmpFrom(a, b, i) ==
    IF i = 0 THEN 0
    ELSE IF a[i] < b[i] THEN -1
    ELSE IF a[i] > b[i] THEN 1
    ELSE BigCmpFrom(a, b, i - 1)

\* -1, 0, 1 as a < b, a = b, a > b (both without leading zero limbs)
BigCmp(a, b) ==
    IF Len(a) < Len(b) THEN -1
    ELSE IF Len(a) > Len(b) THEN 1
    ELSE BigCmpFrom(a, b, Len(a))

RECURSIVE BigMulSmallFrom(_, _, _, _)
BigMulSmallFrom(a, k, i, c) ==
    IF i > Len(a) THEN (IF c = 0 THEN <<>> ELSE <<c>>)
    ELSE <<(a[i] * k + c) % Base>> \o BigMulSmallFrom(a, k, i + 1, (a[i] * k + c) \div Base)

\* a * k, for 0 <= k < Base
BigMulSmall(a, k) == IF k = 0 THEN <<>> ELSE BigMulSmallFrom(a, k, 1, 0)

Zeros(n) == [i \in 1..n |-> 0]

\* a * Base^n
BigShlLimbs(a, n) == IF a = <<>> THEN <<>> ELSE Zeros(n) \o a

RECURSIVE BigMulFrom(_, _, _)
BigMulFrom(a, b, i) ==
    IF i > Len(b) THEN <<>>
    ELSE BigAdd(BigShlLimbs(BigMulSmall(a, b[i]), i - 1), BigMulFrom(a, b, i + 1))

BigMul(a, b) == Trim(BigMulFrom(a, b, 1))

\* a * 2^k
BigShl(a, k) == BigShlLimbs(BigMulSmall(a, 2 ^ (k % LimbBits)), k \div LimbBits)

\* floor(a / p) for a power of two p <= Base
BigShrSmall(a, p) ==
    Trim([i \in 1..Len(a) |-> (a[i] \div p) + (Limb(a, i + 1) % p) * (Base \div p)])

\* floor(a / 2^k)
BigShr(a, k) ==
    BigShrSmall(IF k \div LimbBits >= Len(a) THEN <<>>
                ELSE SubSeq(a, (k \div LimbBits) + 1, Len(a)),
                2 ^ (k % LimbBits))

RECURSIVE SmallBitLen(_)
SmallBitLen(n) == IF n = 0 THEN 0 ELSE 1 + SmallBitLen(n \div 2)

\* the number of bits of a (0 for zero)
BitLen(a) ==
    IF a = <<>> THEN 0 ELSE (Len(a) - 1) * LimbBits + SmallBitLen(a[Len(a)])

BigOdd(a) == a # <<>> /\ a[1] % 2 = 1

RECURSIVE SmallTrailingZeros(_)
SmallTrailingZeros(n) == IF n % 2 = 1 THEN 0 ELSE 1 + SmallTrailingZeros(n \div 2)

RECURSIVE TrailingZerosFrom(_, _)
TrailingZerosFrom(a, i) ==
    IF a[i] = 0 THEN LimbBits + TrailingZerosFrom(a, i + 1)
    ELSE SmallTrailingZeros(a[i])

\* the number of trailing zero bits of a # 0
TrailingZeros(a) == TrailingZerosFrom(a, 1)

\* the largest digit d <= qhat with d * b <= r
RECURSIVE FitDigit(_, _, _)
FitDigit(r, b, qhat) ==
    IF BigCmp(BigMulSmall(b, qhat), r) > 0 THEN FitDigit(r, b, qhat - 1) ELSE qhat

\* the first guess of a quotient digit, from the top limbs of r and b
EstDigit(r, b) ==
    Min(Base - 1, (Limb(r, Len(b) + 1) * Base + Limb(r, Len(b))) \div b[Len(b)])

\* long division by a divisor b whose top limb is at least Base / 2, one limb
\* of the dividend at a time from the top: <<quotient, remainder>>
RECURSIVE BigDivStep(_, _, _, _, _)
RECURSIVE BigDivDigit(_, _, _, _, _)
RECURSIVE BigDivSub(_, _, _, _, _, _)
BigDivStep(a, b, i, q, r) ==
    IF i < 1 THEN <<Trim(q), r>> ELSE BigDivDigit(a, b, i, q, Trim(<<a[i]>> \o r))

BigDivDigit(a, b, i, q, r) == BigDivSub(a, b, i, q, r, FitDigit(r, b, EstDigit(r, b)))

BigDivSub(a, b, i, q, r, d) ==
    BigDivStep(a, b, i - 1, <<d>> \o q, BigSub(r, BigMulSmall(b, d)))

BigDivStart(a, b) == BigDivStep(a, b, Len(a), <<>>, <<>>)
BigDivUnshift(qr, s) == <<qr[1], BigShr(qr[2], s)>>
BigDivShifted(a, b, s) == BigDivUnshift(BigDivStart(BigShl(a, s), BigShl(b, s)), s)

\* <<floor(a / b), a mod b>>, for b # 0
BigDivMod(a, b) == BigDivShifted(a, b, LimbBits - SmallBitLen(b[Len(b)]))

\* Newton's iteration downwards from x >= sqrt(t), on small numbers
RECURSIVE SmallSqrtStep(_, _)
SmallSqrtStep(t, x) ==
    IF (x + t \div x) \div 2 >= x THEN x ELSE SmallSqrtStep(t, (x + t \div x) \div 2)

\* floor(sqrt(t)) for 0 < t < Base^2
SmallSqrt(t) == SmallSqrtStep(t, Base)

\* Newton's iteration downwards from x >= sqrt(a): floor(sqrt(a))
RECURSIVE BigSqrtStep(_, _)
RECURSIVE BigSqrtNext(_, _, _)
BigSqrtStep(a, x) == BigSqrtNext(a, x, BigShr(BigAdd(x, BigDivMod(a, x)[1]), 1))

BigSqrtNext(a, x, y) == IF BigCmp(y, x) >= 0 THEN x ELSE BigSqrtStep(a, y)

BigSqrtRem(a, r) == <<r, BigSub(a, BigMul(r, r))>>

\* a first x >= sqrt(a), from the bits of a above the lowest sh (sh even)
BigSqrtGuess(a, sh) ==
    BigShl(BigFromNat(SmallSqrt(BigToNat(BigShr(a, sh))) + 1), sh \div 2)

\* <<floor(sqrt(a)), a - floor(sqrt(a))^2>>, for a # 0
BigSqrt(a) ==
    BigSqrtRem(a, BigSqrtStep(a, BigSqrtGuess(a, 2 * ((Max0(BitLen(a) - 2 * LimbBits) + 1) \div 2))))

----------------------------------------------------------------------------
(* Python floats.                                                          *)

FZero == [neg |-> FALSE, m |-> <<>>, e |-> 0]

FIsZero(a) == a.m = <<>>

CanonShift(neg, M, E, tz) == [neg |-> neg, m |-> BigShr(M, tz), e |-> E + tz]

\* the float (-1)^neg * M * 2^E for M of at most MantBits bits
Canon(neg, M, E) ==
    IF M = <<>> THEN FZero ELSE CanonShift(neg, M, E, TrailingZeros(M))

\* M mod 2^d
LowBits(M, d) == BigSub(M, BigShl(BigShr(M, d), d))

\* q rounded up or not: c compares the bits dropped with one half
RoundUp(neg, q, c, E, sticky) ==
    Canon(neg,
          IF c > 0 \/ (c = 0 /\ (sticky \/ BigOdd(q))) THEN BigAdd(q, <<1>>) ELSE q,
          E)

\* the lowest d bits of M dropped
RoundDrop(neg, M, E, sticky, d) ==
    RoundUp(neg, BigShr(M, d), BigCmp(LowBits(M, d), BigShl(<<1>>, d - 1)), E + d, sticky)

\* (-1)^neg * (M + f) * 2^E rounded to nearest, ties to even, where
\* 0 <= f < 1 and sticky says that f > 0
RoundToFloat(neg, M, E, sticky) ==
    IF BitLen(M) <= MantBits THEN Canon(neg, M, E)
    ELSE RoundDrop(neg, M, E, sticky, BitLen(M) - MantBits)

\* float(n) for an integer n
FromInt(n) == IF n < 0 THEN Canon(TRUE, BigFromNat(-n), 0)
              ELSE Canon(FALSE, BigFromNat(n), 0)

FNeg(a) == IF FIsZero(a) THEN a ELSE [a EXCEPT !.neg = ~a.neg]

\* (-1)^aneg * A + (-1)^bneg * B in units of 2^emin, exactly; c compares A, B
AddAligned(aneg, A, bneg, B, c, emin) ==
    [neg |-> IF aneg = bneg \/ c >= 0 THEN aneg ELSE bneg,
     m |-> IF aneg = bneg THEN BigAdd(A, B)
           ELSE IF c >= 0 THEN BigSub(A, B) ELSE BigSub(B, A),
     e |-> emin]

ExactAddAligned(aneg, A, bneg, B, emin) == AddAligned(aneg, A, bneg, B, BigCmp(A, B), emin)

ExactAddAt(a, b, emin) ==
    ExactAddAligned(a.neg, BigShl(a.m, a.e - emin), b.neg, BigShl(b.m, b.e - emin), emin)

\* a + b before rounding: [neg, m, e] with m of any size
ExactAdd(a, b) ==
    IF a.m = <<>> THEN b
    ELSE IF b.m = <<>> THEN a
    ELSE ExactAddAt(a, b, Min(a.e, b.e))

Rounded(r) == RoundToFloat(r.neg, r.m, r.e, FALSE)

\* a + b
FAdd(a, b) == Rounded(ExactAdd(a, b))

\* a - b
FSub(a, b) == FAdd(a, FNeg(b))

\* a * b
FMul(a, b) ==
    IF FIsZero(a) \/ FIsZero(b) THEN FZero
    ELSE RoundToFloat(a.neg # b.neg, BigMul(a.m, b.m), a.e + b.e, FALSE)

\* a ** 2
FSquare(a) == FMul(a, a)

\* a quotient or a root qr = <<floor, remainder>> in units of 2^E, rounded
RoundPair(neg, qr, E) == RoundToFloat(neg, qr[1], E, qr[2] # <<>>)

RoundQuotientAt(neg, N, D, E, k) == RoundPair(neg, BigDivMod(BigShl(N, k), D), E - k)

\* (-1)^neg * (N / D) * 2^E rounded to a float, for N, D > 0
RoundQuotient(neg, N, D, E) ==
    RoundQuotientAt(neg, N, D, E, Max0(MantBits + 2 + BitLen(D) - BitLen(N)))

\* a / b, for b # 0
FDiv(a, b) ==
    IF FIsZero(a) THEN FZero
    ELSE RoundQuotient(a.neg # b.neg, a.m, b.m, a.e - b.e)

SqrtScaled(M, E, k) == RoundPair(FALSE, BigSqrt(BigShl(M, 2 * k)), (E - 2 * k) \div 2)

\* sqrt(M * 2^E) for an even E
SqrtEven(M, E) == SqrtScaled(M, E, Max0(2 * MantBits + 3 - BitLen(M)) \div 2)

\* math.sqrt(a), for a >= 0
FSqrt(a) ==
    IF FIsZero(a) THEN FZero
    ELSE IF a.e % 2 = 1 THEN SqrtEven(BigShl(a.m, 1), a.e - 1)
    ELSE SqrtEven(a.m, a.e)

IsNegative(a) == ~FIsZero(a) /\ a.neg

\* a <= b and a < b; a = b is the equality of the records
FLe(a, b) == ~IsNegative(FSub(b, a))
FLt(a, b) == IsNegative(FSub(a, b))

\* |a| <= 1
FAbsLeOne(a) ==
    FIsZero(a) \/ BitLen(a.m) + a.e <= 0 \/ (a.m = <<1>> /\ a.e = 0)

\* a is the float of an integer
FIsInteger(a) == FIsZero(a) \/ a.e >= 0

\* math.floor(a) and math.ceil(a): Python integers
FFloor(a) ==
    IF FIsZero(a) THEN 0
    ELSE IF a.e >= 0 THEN (IF a.neg THEN -1 ELSE 1) * BigToNat(BigShl(a.m, a.e))
    ELSE IF a.neg THEN -(BigToNat(BigShr(a.m, -a.e)) + 1)
    ELSE BigToNat(BigShr(a.m, -a.e))

FCeil(a) ==
    IF FIsZero(a) THEN 0
    ELSE IF a.e >= 0 THEN (IF a.neg THEN -1 ELSE 1) * BigToNat(BigShl(a.m, a.e))
    ELSE IF a.neg THEN -BigToNat(BigShr(a.m, -a.e))
    ELSE BigToNat(BigShr(a.m, -a.e)) + 1

\* the sum builtin over a sequence of floats: left to right from 0
RECURSIVE FSumFrom(_, _, _)
FSumFrom(s, i, acc) ==
    IF i > Len(s) THEN acc ELSE FSumFrom(s, i + 1, FAdd(acc, s[i]))

FSum(s) == FSumFrom(s, 1, FZero)

----------------------------------------------------------------------------
(* The statistics functions.  A result is [err, val]: err is "none" and    *)
(* val the value returned, or err names the exception raised.              *)

Ok(v) == [err |-> "none", val |-> v]
Raise(name) == [err |-> name, val |-> FZero]

\* the sum of the floats of s as an exact fraction (statistics._sum)
RECURSIVE ExactSumFrom(_, _, _)
ExactSumFrom(s, i, acc) ==
    IF i > Len(s) THEN acc ELSE ExactSumFrom(s, i + 1, ExactAdd(acc, s[i]))

MeanOf(total, n) ==
    IF total.m = <<>> THEN Ok(FZero)
    ELSE Ok(RoundQuotient(total.neg, total.m, BigFromNat(n), total.e))

\* a faulty mean: 0.0 for an empty sequence instead of raising
mean_zero_when_empty(data) ==
    IF Len(data) < 1 THEN Ok(FZero)
    ELSE MeanOf(ExactSumFrom(data, 1, FZero), Len(data))

\* statistics.mean: the exact sum divided by n, rounded once; an empty
\* sequence raises StatisticsError
mean(data) ==
    IF Len(data) < 1 THEN Raise("StatisticsError")
    ELSE MeanOf(ExactSumFrom(data, 1, FZero), Len(data))

\* a faulty numerator: both deviations taken about mean_x
CovariationAboutMeanX(x, y, mean_x, mean_y) ==
    FSum([i \in 1..Min(Len(x), Len(y)) |-> FMul(FSub(x[i], mean_x), FSub(y[i], mean_x))])

\* sum((a - mean_x) * (b - mean_y) for a, b in zip(x, y))
Covariation(x, y, mean_x, mean_y) ==
    FSum([i \in 1..Min(Len(x), Len(y)) |-> FMul(FSub(x[i], mean_x), FSub(y[i], mean_y))])

\* math.sqrt(sum((a - mean_x) ** 2 for a in x))
Deviation(x, mean_x) ==
    FSqrt(FSum([i \in 1..Len(x) |-> FSquare(FSub(x[i], mean_x))]))

\* numerator / denominator; a float division by zero raises
Quotient(numerator, denominator) ==
    IF FIsZero(denominator) THEN Raise("ZeroDivisionError")
    ELSE Ok(FDiv(numerator, denominator))

\* a faulty variant without the zero-denominator guard
PearsonOfUnguarded(numerator, denominator_x, denominator_y) ==
    Quotient(numerator, FMul(denominator_x, denominator_y))

PearsonOf(numerator, denominator_x, denominator_y) ==
    IF FIsZero(denominator_x) \/ FIsZero(denominator_y) THEN Ok(FZero)
    ELSE Quotient(numerator, FMul(denominator_x, denominator_y))

PearsonAbout(x, y, mx, my) ==
    IF mx.err # "none" THEN mx
    ELSE IF my.err # "none" THEN my
    ELSE PearsonOf(Covariation(x, y, mx.val, my.val),
                   Deviation(x, mx.val), Deviation(y, my.val))

pearson(x, y) == PearsonAbout(x, y, mean(x), mean(y))

\* a faulty interpolation: weighted by upper - index
QuantileBetweenComplement(sorted_values, index, lower, upper) ==
    IF lower = upper THEN sorted_values[lower + 1]
    ELSE FAdd(sorted_values[lower + 1],
              FMul(FSub(sorted_values[upper + 1], sorted_values[lower + 1]),
                   FSub(FromInt(upper), index)))

\* a faulty interpolation: weighted by index, not by its fractional part
QuantileBetweenWholeIndex(sorted_values, index, lower, upper) ==
    IF lower = upper THEN sorted_values[lower + 1]
    ELSE FAdd(sorted_values[lower + 1],
              FMul(FSub(sorted_values[upper + 1], sorted_values[lower + 1]), index))

QuantileBetween(sorted_values, index, lower, upper) ==
    IF lower = upper THEN sorted_values[lower + 1]
    ELSE FAdd(sorted_values[lower + 1],
              FMul(FSub(sorted_values[upper + 1], sorted_values[lower + 1]),
                   FSub(index, FromInt(lower))))

QuantileAt(sorted_values, index) ==
    QuantileBetween(sorted_values, index, FFloor(index), FCeil(index))

\* quantile over an ascending sequence of at least one float, q a float >= 0
quantile(sorted_values, q) ==
    QuantileAt(sorted_values, FMul(FromInt(Len(sorted_values) - 1), q))

\* sorted(values): a new ascending list, the argument is left alone
RECURSIVE Insert(_, _)
Insert(s, v) ==
    IF s = <<>> THEN <<v>>
    ELSE IF FLt(v, s[Len(s)]) THEN Insert(SubSeq(s, 1, Len(s) - 1), v) \o <<s[Len(s)]>>
    ELSE s \o <<v>>

RECURSIVE sorted(_)
sorted(values) ==
    IF values = <<>> THEN <<>>
    ELSE Insert(sorted(SubSeq(values, 1, Len(values) - 1)), values[Len(values)])

\* 0.25, 0.5 and 0.75
Quarter == [neg |-> FALSE, m |-> <<1>>, e |-> -2]
Half == [neg |-> FALSE, m |-> <<1>>, e |-> -1]
ThreeQuarters == [neg |-> FALSE, m |-> <<3>>, e |-> -2]

NoStats == [min |-> FZero, q1 |-> FZero, median |-> FZero, q3 |-> FZero, max |-> FZero]

\* the record box_stats builds; sorted_values[0] of an empty list raises
BoxOf(sorted_values) ==
    IF sorted_values = <<>> THEN [err |-> "IndexError", val |-> NoStats]
    ELSE [err |-> "none",
          val |-> [min |-> sorted_values[1],
                   q1 |-> quantile(sorted_values, Quarter),
                   median |-> quantile(sorted_values, Half),
                   q3 |-> quantile(sorted_values, ThreeQuarters),
                   max |-> sorted_values[Len(sorted_values)]]]

\* a faulty variant that does not sort
box_stats_unsorted(values) == BoxOf(values)

box_stats(values) == BoxOf(sorted(values))

----------------------------------------------------------------------------
(* The dataset, the file system and the SVG emitter.                       *)

SUBJECT_COLUMNS == <<"Math", "Science", "English", "History">>
NumericColumns == <<"Attendance">> \o SUBJECT_COLUMNS

Range(s) == {s[i] : i \in DOMAIN s}

\* A cell of the CSV file: the decimal numeral of n, or text that is no number.
Num(n) == [numeric |-> TRUE, n |-> n]
NotANumber == [numeric |-> FALSE, n |-> 0]

CsvRow(id, gender, att, ma, sc, en, hi) ==
    [Student_ID |-> id, Gender |-> gender, Attendance |-> att,
     Math |-> ma, Science |-> sc, English |-> en, History |-> hi]

\* the lines a data file is made of
CsvRows ==
    { CsvRow("S1", "Female", Num(95), Num(90), Num(80), Num(70), Num(60)),
      CsvRow("S2", "Male", Num(85), Num(70), Num(60), Num(50), Num(40)),
      CsvRow("S3", "Female", Num(60), Num(83), Num(50), Num(70), Num(96)),
      CsvRow("S4", "Male", NotANumber, Num(70), Num(60), Num(50), Num(40)) }

MaxRows == 3

SeqsUpTo(S, n) == UNION {[1..k -> S] : k \in 0..n}

\* the data file: absent, or a header and up to MaxRows lines
CsvFiles ==
    {[exists |-> FALSE, lines |-> <<>>]}
        \cup {[exists |-> TRUE, lines |-> l] : l \in SeqsUpTo(CsvRows, MaxRows)}

\* load_data: open() of a missing file raises FileNotFoundError and float()
\* of a cell that is no number raises ValueError; else every row, converted
load_data(file) ==
    IF ~file.exists THEN [err |-> "FileNotFoundError", rows |-> <<>>]
    ELSE IF \E i \in DOMAIN file.lines : \E c \in Range(NumericColumns) :
                ~file.lines[i][c].numeric
    THEN [err |-> "ValueError", rows |-> <<>>]
    ELSE [err |-> "none",
          rows |-> [i \in DOMAIN file.lines |->
                      [Student_ID |-> file.lines[i].Student_ID,
                       Gender |-> file.lines[i].Gender,
                       Attendance |-> FromInt(file.lines[i].Attendance.n),
                       Math |-> FromInt(file.lines[i].Math.n),
                       Science |-> FromInt(file.lines[i].Science.n),
                       English |-> FromInt(file.lines[i].English.n),
                       History |-> FromInt(file.lines[i].History.n)]]]

\* [float(row[c]) for row in rows]
Column(rows, c) == [i \in DOMAIN rows |-> rows[i][c]]

\* A line of an SVG file.  Its kind is the element, its tag the statement
\* of the program that formats it, i and j the loop indices (or the canvas
\* size, or the tick value) it is formatted from; the pixel coordinates are
\* not modelled.
Element(kind, tag, i, j) == [kind |-> kind, tag |-> tag, i |-> i, j |-> j]

SvgOpen(width, height) == Element("svg", "open", width, height)
Background == Element("rect", "background", 0, 0)
SvgClose == Element("/svg", "close", 0, 0)

\* the lines save_svg joins with "\n"
\* a faulty emitter: the primitives joined last to first
RECURSIVE Reversed(_)
Reversed(s) == IF s = <<>> THEN <<>> ELSE <<s[Len(s)]>> \o Reversed(SubSeq(s, 1, Len(s) - 1))

SvgTextReversed(width, height, body) ==
    <<SvgOpen(width, height), Background>> \o Reversed(body) \o <<SvgClose>>

SvgText(width, height, body) ==
    <<SvgOpen(width, height), Background>> \o body \o <<SvgClose>>

BoxplotPath == "boxplot_score_distribution.svg"
\* a faulty destination: the heat map saved over the box plot
HeatmapPathOfBoxplot == BoxplotPath
HeatmapPath == "correlation_heatmap.svg"
ComparisonPath == "subject_wise_comparison.svg"
ChartPaths == {BoxplotPath, HeatmapPath, ComparisonPath}

Absent == [exists |-> FALSE, lines |-> <<>>]
Stale == [exists |-> TRUE, lines |-> <<Element("stale", "previous run", 0, 0)>>]

\* How a write_text ends: "ok"; "open_error", the file cannot be opened and
\* stays as it was; "write_error", the file was truncated and the first k
\* lines written when the write failed.
IoOutcomes(text) ==
    {[outcome |-> "ok", k |-> Len(text)], [outcome |-> "open_error", k |-> 0]}
        \cup {[outcome |-> "write_error", k |-> k] : k \in 0..(Len(text) - 1)}

\* save_svg: the file system after the call, and the exception raised
save_svg(fs, path, width, height, body, io) ==
    IF io.outcome = "open_error" THEN [files |-> fs, err |-> "OSError"]
    ELSE [files |-> [fs EXCEPT ![path] =
                        [exists |-> TRUE,
                         lines |-> SubSeq(SvgText(width, height, body), 1, io.k)]],
          err |-> IF io.outcome = "ok" THEN "none" ELSE "OSError"]

----------------------------------------------------------------------------
(* The chart composers: the statistics, then the body of the chart.        *)

RECURSIVE FlattenSeq(_)
FlattenSeq(ss) == IF ss = <<>> THEN <<>> ELSE Head(ss) \o FlattenSeq(Tail(ss))

\* for tick in range(first, 101, 10): a tick line and its label
Ticks(first) ==
    FlattenSeq([k \in 1..((100 - first) \div 10 + 1) |->
        <<Element("line", "tick", first + 10 * (k - 1), 0),
          Element("text", "tick label", first + 10 * (k - 1), 0)>>])

BoxplotStats(rows) ==
    [k \in DOMAIN SUBJECT_COLUMNS |-> box_stats(Column(rows, SUBJECT_COLUMNS[k]))]

BoxplotBody ==
    <<Element("text", "title", 0, 0),
      Element("line", "y axis", 0, 0),
      Element("line", "x axis", 0, 0)>>
    \o Ticks(30)
    \o FlattenSeq([k \in DOMAIN SUBJECT_COLUMNS |->
        <<Element("line", "whisker max-q3", k - 1, 0),
          Element("line", "whisker q1-min", k - 1, 0),
          Element("rect", "box q1-q3", k - 1, 0),
          Element("line", "median", k - 1, 0),
          Element("line", "cap max", k - 1, 0),
          Element("line", "cap min", k - 1, 0),
          Element("text", "subject", k - 1, 0)>>])

\* matrix[a][b] = pearson(column a, column b)
CorrelationMatrix(rows) ==
    [a \in Range(NumericColumns) |->
        [b \in Range(NumericColumns) |-> pearson(Column(rows, a), Column(rows, b))]]

HeatmapBody ==
    <<Element("text", "title", 0, 0)>>
    \o FlattenSeq([i \in DOMAIN NumericColumns |->
        <<Element("text", "row label", i - 1, 0),
          Element("text", "column label", i - 1, 0)>>
        \o FlattenSeq([j \in DOMAIN NumericColumns |->
            <<Element("rect", "cell", i - 1, j - 1),
              Element("text", "cell value", i - 1, j - 1)>>])])

genders == <<"Female", "Male">>

\* [float(r[subject]) for r in rows if r["Gender"] == gender]
RECURSIVE GroupColumn(_, _, _)
GroupColumn(rows, gender, subject) ==
    IF rows = <<>> THEN <<>>
    ELSE (IF Head(rows).Gender = gender THEN <<Head(rows)[subject]>> ELSE <<>>)
            \o GroupColumn(Tail(rows), gender, subject)

\* averages[gender][subject] = mean of the subject over the gender's rows
GroupedAverages(rows) ==
    [g \in Range(genders) |->
        [s \in Range(SUBJECT_COLUMNS) |-> mean(GroupColumn(rows, g, s))]]

ComparisonBody ==
    <<Element("text", "title", 0, 0),
      Element("line", "y axis", 0, 0),
      Element("line", "x axis", 0, 0)>>
    \o Ticks(40)
    \o FlattenSeq([k \in DOMAIN SUBJECT_COLUMNS |->
        FlattenSeq([g \in DOMAIN genders |->
            <<Element("rect", "bar", k - 1, g - 1),
              Element("text", "bar value", k - 1, g - 1)>>])
        \o <<Element("text", "subject", k - 1, 0)>>])
    \o FlattenSeq([g \in DOMAIN genders |->
        <<Element("rect", "legend swatch", g - 1, 0),
          Element("text", "legend label", g - 1, 0)>>])

----------------------------------------------------------------------------
(* main(): one run of the script.                                          *)

VARIABLES
    pc,        \* the statement of main() that runs next, "done" or "failed"
    csv,       \* the data file
    outdir,    \* whether the output directory exists
    files,     \* the chart files of the output directory
    rows,      \* main's rows
    box,       \* the box statistics plot_boxplots computed
    matrix,    \* the matrix plot_correlation_heatmap computed
    averages,  \* the averages plot_subject_wise_comparison computed
    stdout,    \* the lines printed
    error,     \* the exception that ended the run and the stage raising it
    trace,     \* history: the composers called and the files written, in order
    x, y,      \* the arguments of a call of a statistics function
    out,       \* that call and its result
    svg        \* the arguments of a call of save_svg, and how it ended

mainVars == <<pc, csv, outdir, files, rows, box, matrix, averages, stdout, error, trace>>
vars == <<pc, csv, outdir, files, rows, box, matrix, averages, stdout, error, trace,
          x, y, out, svg>>

NoError == [stage |-> "none", exc |-> "none"]
NoBox == [set |-> FALSE, val |-> [k \in DOMAIN SUBJECT_COLUMNS |-> NoStats]]
NoMatrix ==
    [set |-> FALSE,
     val |-> [a \in Range(NumericColumns) |-> [b \in Range(NumericColumns) |-> FZero]]]
NoAverages ==
    [set |-> FALSE,
     val |-> [g \in Range(genders) |-> [s \in Range(SUBJECT_COLUMNS) |-> FZero]]]
NoCall == [fn |-> "none"]
NoSvg == [path |-> BoxplotPath, width |-> 0, height |-> 0, body |-> <<>>,
          done |-> FALSE, err |-> "none"]

Call(name) == [ev |-> "call", name |-> name, complete |-> TRUE]
Write(path, complete) == [ev |-> "write", name |-> path, complete |-> complete]

\* the output directory before the run: missing, or holding the
\* charts of an earlier run
OutputDirs ==
    { [dir |-> FALSE, files |-> [p \in ChartPaths |-> Absent]],
      [dir |-> TRUE, files |-> [p \in ChartPaths |-> Stale]] }

Stages == <<"mkdir", "load", "boxplots", "heatmap", "comparison", "print", "done">>

StageIndex(stage) == CHOOSE i \in DOMAIN Stages : Stages[i] = stage

\* a faulty main that swallows the exception and goes on
ProceedDespiteError(stage, err) == Stages[StageIndex(stage) + 1]

\* main() has no try: a statement that raises ends the run, else the next runs
Proceed(stage, err) ==
    IF err = "none" THEN Stages[StageIndex(stage) + 1] ELSE "failed"

Finish(stage, err) ==
    /\ pc' = Proceed(stage, err)
    /\ error' = IF err = "none" THEN error ELSE [stage |-> stage, exc |-> err]

StatsIdle == x = <<>> /\ y = <<>> /\ out = NoCall
SvgIdle == svg = NoSvg

Init ==
    /\ pc = "mkdir"
    /\ csv \in CsvFiles
    /\ \E d \in OutputDirs : outdir = d.dir /\ files = d.files
    /\ rows = <<>>
    /\ box = NoBox
    /\ matrix = NoMatrix
    /\ averages = NoAverages
    /\ stdout = <<>>
    /\ error = NoError
    /\ trace = <<>>
    /\ StatsIdle
    /\ SvgIdle

\* OUTPUT_DIR.mkdir(parents=True, exist_ok=True)
Mkdir ==
    /\ pc = "mkdir"
    /\ \E ok \in (IF outdir THEN {TRUE} ELSE BOOLEAN) :
        /\ outdir' = (outdir \/ ok)
        /\ Finish("mkdir", IF ok THEN "none" ELSE "OSError")
    /\ UNCHANGED <<csv, files, rows, box, matrix, averages, stdout, trace, x, y, out, svg>>

Loaded(r) == rows' = r.rows /\ Finish("load", r.err)

\* rows = load_data(DATA_PATH)
LoadData ==
    /\ pc = "load"
    /\ Loaded(load_data(csv))
    /\ UNCHANGED <<csv, outdir, files, box, matrix, averages, stdout, trace, x, y, out, svg>>

Saved(stage, path, io, r, called) ==
    /\ files' = r.files
    /\ trace' = IF io.outcome = "open_error" THEN called
                ELSE Append(called, Write(path, io.outcome = "ok"))
    /\ Finish(stage, r.err)

\* the end of a composer: save_svg(OUTPUT_DIR / path, width, height, body)
Save(stage, path, width, height, body, called) ==
    \E io \in IoOutcomes(SvgText(width, height, body)) :
        Saved(stage, path, io, save_svg(files, path, width, height, body, io), called)

\* a composer that raises before it calls save_svg
Raised(stage, err, called) ==
    /\ Finish(stage, err)
    /\ trace' = called
    /\ files' = files

\* the first exception among the results rs[1], rs[2], ...
RECURSIVE FirstErrorFrom(_, _)
FirstErrorFrom(rs, i) ==
    IF i > Len(rs) THEN "none"
    ELSE IF rs[i].err # "none" THEN rs[i].err
    ELSE FirstErrorFrom(rs, i + 1)

FirstError(rs) == FirstErrorFrom(rs, 1)

BoxplotsWith(st, called) ==
    IF FirstError(st) # "none"
    THEN /\ Raised("boxplots", FirstError(st), called)
         /\ box' = box
    ELSE /\ box' = [set |-> TRUE, val |-> [k \in DOMAIN st |-> st[k].val]]
         /\ Save("boxplots", BoxplotPath, 900, 520, BoxplotBody, called)

PlotBoxplots ==
    /\ pc = "boxplots"
    /\ BoxplotsWith(BoxplotStats(rows), Append(trace, Call("plot_boxplots")))
    /\ UNCHANGED <<csv, outdir, rows, matrix, averages, stdout, x, y, out, svg>>

\* the results of a table in the order the comprehensions compute them
RowMajor(table, outer, inner) ==
    [n \in 1..(Len(outer) * Len(inner)) |->
        table[outer[((n - 1) \div Len(inner)) + 1]][inner[((n - 1) % Len(inner)) + 1]]]

Values(table) == [a \in DOMAIN table |-> [b \in DOMAIN table[a] |-> table[a][b].val]]

HeatmapWith(m, called) ==
    IF FirstError(RowMajor(m, NumericColumns, NumericColumns)) # "none"
    THEN /\ Raised("heatmap", FirstError(RowMajor(m, NumericColumns, NumericColumns)), called)
         /\ matrix' = matrix
    ELSE /\ matrix' = [set |-> TRUE, val |-> Values(m)]
         /\ Save("heatmap", HeatmapPath, 760, 760, HeatmapBody, called)

PlotCorrelationHeatmap ==
    /\ pc = "heatmap"
    /\ HeatmapWith(CorrelationMatrix(rows), Append(trace, Call("plot_correlation_heatmap")))
    /\ UNCHANGED <<csv, outdir, rows, box, averages, stdout, x, y, out, svg>>

ComparisonWith(av, called) ==
    IF FirstError(RowMajor(av, genders, SUBJECT_COLUMNS)) # "none"
    THEN /\ Raised("comparison", FirstError(RowMajor(av, genders, SUBJECT_COLUMNS)), called)
         /\ averages' = averages
    ELSE /\ averages' = [set |-> TRUE, val |-> Values(av)]
         /\ Save("comparison", ComparisonPath, 900, 520, ComparisonBody, called)

PlotSubjectWiseComparison ==
    /\ pc = "comparison"
    /\ ComparisonWith(GroupedAverages(rows),
                      Append(trace, Call("plot_subject_wise_comparison")))
    /\ UNCHANGED <<csv, outdir, rows, box, matrix, stdout, x, y, out, svg>>

\* print(f"Analysis complete. SVG files generated in: {OUTPUT_DIR}")
PrintComplete ==
    /\ pc = "print"
    /\ stdout' = Append(stdout, "Analysis complete. SVG files generated in: outputs")
    /\ Finish("print", "none")
    /\ UNCHANGED <<csv, outdir, files, rows, box, matrix, averages, trace, x, y, out, svg>>

Next ==
    \/ Mkdir
    \/ LoadData
    \/ PlotBoxplots
    \/ PlotCorrelationHeatmap
    \/ PlotSubjectWiseComparison
    \/ PrintComplete

Spec == Init /\ [][Next]_vars

----------------------------------------------------------------------------
(* A call of one statistics function on its own.                           *)

MainIdle ==
    /\ pc = "idle"
    /\ csv = [exists |-> FALSE, lines |-> <<>>]
    /\ outdir = FALSE
    /\ rows = <<>>
    /\ box = NoBox
    /\ matrix = NoMatrix
    /\ averages = NoAverages
    /\ stdout = <<>>
    /\ error = NoError
    /\ trace = <<>>

\* the floats 0.1 and 1/3
Tenth == RoundQuotient(FALSE, <<1>>, <<10>>, 0)
Third == RoundQuotient(FALSE, <<1>>, <<3>>, 0)

\* the numbers the sequences are made of (-3.0, 0.0 and 0.1), and the
\* longest sequence
StatValues == {FNeg(FromInt(3)), FZero, Tenth}
MaxLen == 3

FloatSeqs(n) == {[i \in 1..n |-> s[i]] : s \in [1..n -> StatValues]}

\* the fractions q: 0, 1, the quartiles, 0.1 and 1/3
QFractions == {FZero, FromInt(1), Quarter, Half, ThreeQuarters, Tenth, Third}

IsAscending(s) == \A i \in 1..(Len(s) - 1) : FLe(s[i], s[i + 1])
IsConstant(s) == \A i \in DOMAIN s : s[i] = s[1]

InitStats ==
    /\ MainIdle
    /\ files = [p \in ChartPaths |-> Absent]
    /\ SvgIdle
    /\ \E n \in 1..MaxLen : x \in FloatSeqs(n) /\ y \in FloatSeqs(n)
    /\ out = NoCall

CallPearson ==
    /\ out.fn = "none"
    /\ out' = [fn |-> "pearson", res |-> pearson(x, y)]
    /\ UNCHANGED <<mainVars, x, y, svg>>

\* quantile is called with a sorted list
CallQuantile ==
    /\ out.fn = "none"
    /\ IsAscending(x)
    /\ \E q \in QFractions : out' = [fn |-> "quantile", q |-> q, res |-> quantile(x, q)]
    /\ UNCHANGED <<mainVars, x, y, svg>>

CallBoxStats ==
    /\ out.fn = "none"
    /\ out' = [fn |-> "box_stats", res |-> box_stats(x)]
    /\ UNCHANGED <<mainVars, x, y, svg>>

NextStats == CallPearson \/ CallQuantile \/ CallBoxStats

SpecStats == InitStats /\ [][NextStats]_vars

----------------------------------------------------------------------------
(* A call of save_svg on its own.                                          *)

Primitives ==
    {Element("line", "primitive", 1, 0), Element("rect", "primitive", 2, 0),
     Element("text", "primitive", 3, 0)}
MaxBody == 3
CanvasSizes == {520, 760, 900}

InitSvg ==
    /\ MainIdle
    /\ StatsIdle
    /\ files \in {[p \in ChartPaths |-> Absent], [p \in ChartPaths |-> Stale]}
    /\ svg \in [path : ChartPaths, width : CanvasSizes, height : CanvasSizes,
                body : SeqsUpTo(Primitives, MaxBody), done : {FALSE}, err : {"none"}]

SvgSaved(r) ==
    /\ files' = r.files
    /\ svg' = [svg EXCEPT !.done = TRUE, !.err = r.err]

CallSaveSvg ==
    /\ ~svg.done
    /\ \E io \in IoOutcomes(SvgText(svg.width, svg.height, svg.body)) :
        SvgSaved(save_svg(files, svg.path, svg.width, svg.height, svg.body, io))
    /\ UNCHANGED <<pc, csv, outdir, rows, box, matrix, averages, stdout, error, trace,
                   x, y, out>>

NextSvg == CallSaveSvg

SpecSvg == InitSvg /\ [][NextSvg]_vars

----------------------------------------------------------------------------
(* Properties of a run of main().                                          *)

ChartOrder ==
    <<"boxplot_score_distribution.svg", "correlation_heatmap.svg",
      "subject_wise_comparison.svg">>
ComposerOrder ==
    <<"plot_boxplots", "plot_correlation_heatmap", "plot_subject_wise_comparison">>

IsCall(e) == e.ev = "call"
IsWrite(e) == e.ev = "write"
IsCompleteWrite(e) == e.ev = "write" /\ e.complete
Names(events) == [i \in DOMAIN events |-> events[i].name]
CallsOf(t) == Names(SelectSeq(t, IsCall))
WritesOf(t) == Names(SelectSeq(t, IsWrite))
CompleteWritesOf(t) == Names(SelectSeq(t, IsCompleteWrite))
IsPrefix(s, t) == Len(s) <= Len(t) /\ s = SubSeq(t, 1, Len(s))

\* the number of composers started when the run fails at a stage
Started(stage) ==
    CASE stage = "boxplots" -> 1
      [] stage = "heatmap" -> 2
      [] stage = "comparison" -> 3
      [] OTHER -> 0

IsComplete(file) == file.exists /\ file.lines # <<>> /\ file.lines[Len(file.lines)] = SvgClose
IsUntouched(file) == file \in {Absent, Stale}

\* C1 as stated: a run that ends with an error has written none of the three
\* chart files or all of them, never some and not the others.
FailedRunWritesAllOrNone ==
    pc = "failed" => Len(WritesOf(trace)) \in {0, 3}

\* C1 as amended: an error ends the run at the stage that raised it: the run
\* stops there, starts no later composer, writes no later chart and prints no
\* completion message, and the charts of the stages that completed before the
\* failing one stay written.
FailedRunKeepsEarlierCharts ==
    /\ error.exc # "none" => pc = "failed"
    /\ pc = "failed" =>
        /\ error.exc # "none"
        /\ stdout = <<>>
        /\ CallsOf(trace) = SubSeq(ComposerOrder, 1, Started(error.stage))
        /\ CompleteWritesOf(trace) = SubSeq(ChartOrder, 1, Started(error.stage) - 1)
        /\ \A i \in 1..3 :
            /\ i < Started(error.stage) => IsComplete(files[ChartOrder[i]])
            /\ i > Started(error.stage) => IsUntouched(files[ChartOrder[i]])

\* the case of C1: the averaging of an empty gender group fails after the
\* box plot and the heat map were written
FailedAfterTwoCharts ==
    /\ pc = "failed"
    /\ error = [stage |-> "comparison", exc |-> "StatisticsError"]
    /\ CompleteWritesOf(trace) = SubSeq(ChartOrder, 1, 2)
    /\ IsUntouched(files[ChartOrder[3]])

HasGender(rs, g) == \E i \in DOMAIN rs : rs[i]["Gender"] = g
ComparisonCalled == \E i \in DOMAIN trace : trace[i] = Call("plot_subject_wise_comparison")

\* C2: when Female or Male has no row, plot_subject_wise_comparison fails
\* with the StatisticsError of the empty mean; it computes no averages (no
\* 0 or NaN stands in for the missing mean) and writes no chart.
EmptyGroupRaises ==
    (ComparisonCalled /\ \E g \in Range(genders) : ~HasGender(rows, g)) =>
        /\ error = [stage |-> "comparison", exc |-> "StatisticsError"]
        /\ pc = "failed"
        /\ ~averages.set
        /\ "subject_wise_comparison.svg" \notin Range(WritesOf(trace))

\* the comparison ran on rows of female students only
EmptyMaleGroupRaised ==
    /\ ComparisonCalled
    /\ Len(rows) >= 2
    /\ HasGender(rows, "Female")
    /\ ~HasGender(rows, "Male")
    /\ error.exc = "StatisticsError"

\* C8: pearson gives the same value with its arguments exchanged on every
\* pair of columns, so the matrix of plot_correlation_heatmap is symmetric.
MatrixSymmetric ==
    matrix.set =>
        \A a \in Range(NumericColumns) : \A b \in Range(NumericColumns) :
            matrix.val[a][b] = matrix.val[b][a]

\* a matrix with an entry off the diagonal strictly between 0 and 1 in size
MatrixWithPartialCorrelation ==
    /\ matrix.set
    /\ \E a \in Range(NumericColumns) : \E b \in Range(NumericColumns) :
        /\ a # b
        /\ ~FIsZero(matrix.val[a][b])
        /\ FAbsLeOne(matrix.val[a][b])
        /\ matrix.val[a][b].m # <<1>>
        /\ matrix.val[a][b] = matrix.val[b][a]

\* C10: the composers run one after another in the order box plot, heat
\* map, comparison; each writes only its own path and at most once; a run
\* that succeeds has written each path exactly once before the completion
\* message is printed.
EachChartWrittenOnceInOrder ==
    /\ IsPrefix(CallsOf(trace), ComposerOrder)
    /\ IsPrefix(WritesOf(trace), ChartOrder)
    /\ \A i \in DOMAIN trace :
        IsWrite(trace[i]) =>
            /\ i > 1
            /\ IsCall(trace[i - 1])
            /\ \E k \in 1..3 : trace[i - 1].name = ComposerOrder[k]
                               /\ trace[i].name = ChartOrder[k]
    /\ (stdout # <<>> \/ pc \in {"print", "done"}) =>
        /\ CompleteWritesOf(trace) = ChartOrder
        /\ \A k \in 1..3 : IsComplete(files[ChartOrder[k]])
    /\ pc = "done" => Len(stdout) = 1

\* a run that succeeded and printed the message
RunCompleted ==
    /\ pc = "done"
    /\ Len(stdout) = 1
    /\ WritesOf(trace) = ChartOrder

----------------------------------------------------------------------------
(* Properties of the statistics functions.                                 *)

\* C3: when x or y is constant (a single value included), pearson returns
\* exactly 0.0 and raises nothing, whatever the other sequence is.
ConstantGivesZero ==
    (out.fn = "pearson" /\ (IsConstant(x) \/ IsConstant(y))) => out.res = Ok(FZero)

\* pearson was called with a constant x of three values and a varying y
PearsonOfConstantCalled ==
    /\ out.fn = "pearson"
    /\ Len(x) = 3
    /\ IsConstant(x)
    /\ ~IsConstant(y)
    /\ out.res = Ok(FZero)

\* C4: the record of box_stats is ordered: min <= q1 <= median <= q3 <= max.
BoxStatsOrdered ==
    out.fn = "box_stats" =>
        /\ out.res.err = "none"
        /\ FLe(out.res.val.min, out.res.val.q1)
        /\ FLe(out.res.val.q1, out.res.val.median)
        /\ FLe(out.res.val.median, out.res.val.q3)
        /\ FLe(out.res.val.q3, out.res.val.max)

\* box_stats was called on three values that are not in ascending order and
\* gave five different statistics
BoxStatsOfUnsortedCalled ==
    /\ out.fn = "box_stats"
    /\ Len(x) = 3
    /\ ~IsAscending(x)
    /\ FLt(out.res.val.min, out.res.val.q1)
    /\ FLt(out.res.val.q1, out.res.val.median)
    /\ FLt(out.res.val.median, out.res.val.q3)
    /\ FLt(out.res.val.q3, out.res.val.max)

\* the rank (N - 1) * q as the float the code computes
RankOf(s, q) == FMul(FromInt(Len(s) - 1), q)

\* the value at rank r: s[r] for an integer r, else the value interpolated
\* between s[floor(r)] and s[floor(r) + 1] by the fractional part of r
ValueAtRank(s, r) ==
    IF FIsInteger(r) THEN s[FFloor(r) + 1]
    ELSE FAdd(s[FFloor(r) + 1],
              FMul(FSub(s[FFloor(r) + 2], s[FFloor(r) + 1]),
                   FSub(r, FromInt(FFloor(r)))))

\* C5: quantile returns the value at rank r = (N - 1) * q: the element at r
\* when r is an integer, otherwise the linear interpolation between the two
\* elements around r weighted by the fractional part of r.
QuantileIsValueAtRank ==
    out.fn = "quantile" => out.res = ValueAtRank(x, RankOf(x, out.q))

\* quantile was called with a rank that is not an integer, between two
\* different elements, with a fractional part other than one half
QuantileInterpolated ==
    /\ out.fn = "quantile"
    /\ ~FIsInteger(RankOf(x, out.q))
    /\ FLt(x[FFloor(RankOf(x, out.q)) + 1], x[FFloor(RankOf(x, out.q)) + 2])
    /\ FSub(RankOf(x, out.q), FromInt(FFloor(RankOf(x, out.q)))) # Half
    /\ out.res = ValueAtRank(x, RankOf(x, out.q))

\* C6: quantile(seq, 0) is the first element and quantile(seq, 1) the last,
\* and for a rank strictly between two indices the result lies between the
\* two elements around it, ends included.
QuantileEndsAndBrackets ==
    out.fn = "quantile" =>
        /\ out.q = FZero => out.res = x[1]
        /\ out.q = FromInt(1) => out.res = x[Len(x)]
        /\ ~FIsInteger(RankOf(x, out.q)) =>
            /\ FLe(x[FFloor(RankOf(x, out.q)) + 1], out.res)
            /\ FLe(out.res, x[FFloor(RankOf(x, out.q)) + 2])

\* quantile was called with a rank between the second and the third of three
\* different elements and gave a value strictly between them
QuantileInUpperBracket ==
    /\ out.fn = "quantile"
    /\ Len(x) = 3
    /\ FFloor(RankOf(x, out.q)) = 1
    /\ ~FIsInteger(RankOf(x, out.q))
    /\ FLt(x[1], x[2])
    /\ FLt(x[2], out.res)
    /\ FLt(out.res, x[3])

\* C7: when neither x nor y is constant, pearson(x, y) lies within [-1, 1].
PearsonWithinUnitInterval ==
    (out.fn = "pearson" /\ ~IsConstant(x) /\ ~IsConstant(y)) =>
        /\ out.res.err = "none"
        /\ FAbsLeOne(out.res.val)

----------------------------------------------------------------------------
(* Properties of save_svg.                                                 *)

\* C9: after save_svg returns, the destination holds the svg opening element
\* of the given size, the white background rectangle, the primitives one
\* element each in the order given, and the closing tag, and nothing of what
\* it held before.
SavedSvgHoldsPrimitivesInOrder ==
    (svg.done /\ svg.err = "none") =>
        /\ files[svg.path].exists
        /\ Len(files[svg.path].lines) = Len(svg.body) + 3
        /\ files[svg.path].lines[1] = SvgOpen(svg.width, svg.height)
        /\ files[svg.path].lines[2] = Background
        /\ \A i \in DOMAIN svg.body : files[svg.path].lines[i + 2] = svg.body[i]
        /\ files[svg.path].lines[Len(svg.body) + 3] = SvgClose
        /\ \A i \in DOMAIN files[svg.path].lines : files[svg.path].lines[i] \notin Range(Stale.lines)

\* save_svg wrote three different primitives over the file of an earlier run
SavedOverStaleFile ==
    /\ svg.done
    /\ svg.err = "none"
    /\ Len(svg.body) = 3
    /\ svg.body[1] # svg.body[2]
    /\ svg.body[2] # svg.body[3]
    /\ svg.body[1] # svg.body[3]
    /\ \E p \in ChartPaths \ {svg.path} : files[p] = Stale
    /\ files[svg.path] # Stale

====
